---- MODULE Spec2Model ----
(***************************************************************************)
(* A model of jsonmapper.py: field descriptors, the MappingMeta schema     *)
(* registry, Mapping records backed by a raw dict, DictField / ListField   *)
(* and the ListField.Proxy sequence view.                                  *)
(*                                                                         *)
(* Python objects that can be aliased (dict, list) live on a heap, a       *)
(* sequence of objects addressed by position.  Every Python value is a     *)
(* record [k, v, r]: k the kind, v a string payload, r an integer payload  *)
(* (the heap address for "dict", "list", "Record" and "Proxy").            *)
(***************************************************************************)
EXTENDS Integers, Sequences, FiniteSets, TLC

VARIABLES heap, calls, recs, objs, last, steps

vars == <<heap, calls, recs, objs, last, steps>>

(***************************************************************************)
(* Bounds of the model.                                                    *)
(***************************************************************************)
MaxSteps == 3
MaxViewSteps == 4
MaxRecs == 2
MaxObjs == 2

(***************************************************************************)
(* Values.                                                                 *)
(***************************************************************************)
Val(k, v, r) == [k |-> k, v |-> v, r |-> r]
None == Val("null", "", 0)
Text(s) == Val("text", s, 0)
Num(n) == Val("int", "", n)
DictRef(a) == Val("dict", "", a)
ListRef(a) == Val("list", "", a)
\* datetime(...) with id t and microsecond us
DateTime(t, us) == Val("datetime", t, us)
\* Decimal(s)
Decimal(s) == Val("decimal", s, 0)
\* a Mapping instance of class c whose _data is the dict at address a
Record(c, a) == Val("Record", c, a)
\* a ListField.Proxy over the list at address a with element descriptor f
Proxy(f, a) == Val("Proxy", f, a)
\* a raised exception of type t
Raise(t) == Val("raise", t, 0)

\* heap objects
DictObj(d) == [t |-> "dict", d |-> d, l |-> <<>>]
ListObj(l) == [t |-> "list", d |-> <<>>, l |-> l]

EmptyDict == [x \in {} |-> None]

\* dict[key] = value
DictPut(d, key, value) ==
  [x \in (DOMAIN d) \cup {key} |-> IF x = key THEN value ELSE d[x]]

\* del dict[key]
DictDel(d, key) == [x \in (DOMAIN d) \ {key} |-> d[x]]

(***************************************************************************)
(* Field descriptors.  A descriptor is                                     *)
(*   [fcls, name, dkind, dval, mapping, field]                             *)
(* fcls    the Field subclass                                              *)
(* name    the explicit name, "" when none was given                       *)
(* dkind   "none" (default is None), "value" or "callable"                 *)
(* dval    the default value, or what the callable works on                *)
(* mapping DictField.mapping, a class name, "" for None                    *)
(* field   ListField.field, a descriptor id, "" for the other classes      *)
(***************************************************************************)
Field(fcls, name, dkind, dval) ==
  [fcls |-> fcls, name |-> name, dkind |-> dkind, dval |-> dval,
   mapping |-> "", field |-> ""]

\* DictField(mapping, name, default): the default is always the callable
\* lambda: default.copy(), default being the dict at address a
DictField(mapping, name, a) ==
  [fcls |-> "DictField", name |-> name, dkind |-> "callable",
   dval |-> DictRef(a), mapping |-> mapping, field |-> ""]

\* ListField(field, name, default): the default is always the callable
\* lambda: copy.copy(default), default being the list at address a
ListField(field, name, a) ==
  [fcls |-> "ListField", name |-> name, dkind |-> "callable",
   dval |-> ListRef(a), mapping |-> "", field |-> field]

\* The datetime the producer of Person.added returns (stands for datetime.now)
Now == DateTime("t1", 9876)

(***************************************************************************)
(* The schemas of the model: descriptors, by id, and class declarations.   *)
(*   Author = Mapping.build(name=TextField(), mail=TextField(name='email'))*)
(*   class Person(Mapping): name = TextField()                             *)
(*                          added = DateTimeField(default=datetime.now)    *)
(*   class Post(Mapping):   author = DictField(Author)                     *)
(*                          extra = DictField(default={'tags': ['a']})     *)
(*   class Blog(Mapping):   times = ListField(DateTimeField())             *)
(*                          comments = ListField(DictField(Author))        *)
(*   class A(Mapping): n = TextField(default='a')                          *)
(*   class B(Mapping): n = IntegerField(default=7);  m = TextField()       *)
(*   class C(A, B): pass                                                   *)
(*   class D(A, B): n = DecimalField()                                           *)
(***************************************************************************)
FieldDecl ==
  [f \in {"Author.name", "Author.mail", "Person.name", "Person.added",
          "Post.author", "Post.extra", "Blog.times", "Blog.comments",
          "elt.dt", "elt.author", "A.n", "B.n", "B.m", "D.n"} |->
    CASE f = "Author.name"   -> Field("TextField", "", "none", None)
      [] f = "Author.mail"   -> Field("TextField", "email", "none", None)
      [] f = "Person.name"   -> Field("TextField", "", "none", None)
      [] f = "Person.added"  -> Field("DateTimeField", "", "callable", Now)
      [] f = "Post.author"   -> DictField("Author", "", 3)
      [] f = "Post.extra"    -> DictField("", "", 2)
      [] f = "Blog.times"    -> ListField("elt.dt", "", 4)
      [] f = "Blog.comments" -> ListField("elt.author", "", 5)
      [] f = "elt.dt"        -> Field("DateTimeField", "", "none", None)
      [] f = "elt.author"    -> DictField("Author", "", 6)
      [] f = "A.n"           -> Field("TextField", "", "value", Text("a"))
      [] f = "B.n"           -> Field("IntegerField", "", "value", Num(7))
      [] f = "B.m"           -> Field("TextField", "", "none", None)
      [] f = "D.n"           -> Field("DecimalField", "", "none", None)]

\* The heap once the class bodies have run: the default objects of the
\* DictField and ListField descriptors.
ClassHeap ==
  << ListObj(<<Text("a")>>),                                 \* 1 ['a']
     DictObj([x \in {"tags"} |-> ListRef(1)]),               \* 2 Post.extra
     DictObj(EmptyDict),                                     \* 3 Post.author
     ListObj(<<>>),                                          \* 4 Blog.times
     ListObj(<<>>),                                          \* 5 Blog.comments
     DictObj(EmptyDict) >>                                   \* 6 elt.author

\* bases and class body (attribute -> descriptor id), attributes in the
\* order _fields.items() is walked
ClassDecl ==
  [c \in {"Author", "Person", "Post", "Blog", "A", "B", "C", "D"} |->
    CASE c = "Author" -> [bases |-> <<>>, attrs |-> <<"name", "mail">>,
                          dct |-> [x \in {"name", "mail"} |->
                                    IF x = "name" THEN "Author.name" ELSE "Author.mail"]]
      [] c = "Person" -> [bases |-> <<>>, attrs |-> <<"name", "added">>,
                          dct |-> [x \in {"name", "added"} |->
                                    IF x = "name" THEN "Person.name" ELSE "Person.added"]]
      [] c = "Post"   -> [bases |-> <<>>, attrs |-> <<"author", "extra">>,
                          dct |-> [x \in {"author", "extra"} |->
                                    IF x = "author" THEN "Post.author" ELSE "Post.extra"]]
      [] c = "Blog"   -> [bases |-> <<>>, attrs |-> <<"times", "comments">>,
                          dct |-> [x \in {"times", "comments"} |->
                                    IF x = "times" THEN "Blog.times" ELSE "Blog.comments"]]
      [] c = "A"      -> [bases |-> <<>>, attrs |-> <<"n">>,
                          dct |-> [x \in {"n"} |-> "A.n"]]
      [] c = "B"      -> [bases |-> <<>>, attrs |-> <<"n", "m">>,
                          dct |-> [x \in {"n", "m"} |->
                                    IF x = "n" THEN "B.n" ELSE "B.m"]]
      [] c = "C"      -> [bases |-> <<"A", "B">>, attrs |-> <<"n", "m">>,
                          dct |-> [x \in {} |-> ""]]
      [] c = "D"      -> [bases |-> <<"A", "B">>, attrs |-> <<"n", "m">>,
                          dct |-> [x \in {"n"} |-> "D.n"]]]

(***************************************************************************)
(* MappingMeta.__new__: the _fields table of a class.  The tables of the   *)
(* bases are folded in with dict.update, in the order of the bases, and    *)
(* the Field attributes of the class body are put last.                    *)
(***************************************************************************)
DictUpdate(d, e) == [x \in (DOMAIN d) \cup (DOMAIN e) |-> IF x \in DOMAIN e THEN e[x] ELSE d[x]]

RECURSIVE Fields(_)
RECURSIVE FoldBases(_, _)
FoldBases(bases, fields) ==
  IF bases = <<>> THEN fields
  ELSE FoldBases(Tail(bases), DictUpdate(fields, Fields(Head(bases))))

Fields(c) == DictUpdate(FoldBases(ClassDecl[c].bases, [x \in {} |-> ""]), ClassDecl[c].dct)

\* the name MappingMeta.__new__ (or Mapping.build) binds a descriptor to:
\* its explicit name, else the attribute it is declared under
BoundName(f) ==
  IF FieldDecl[f].name # "" THEN FieldDecl[f].name
  ELSE CHOOSE x \in {"name", "mail", "added", "author", "extra", "times", "comments", "n", "m", ""} :
         \/ \E c \in DOMAIN ClassDecl : x \in DOMAIN ClassDecl[c].dct /\ ClassDecl[c].dct[x] = f
         \/ x = "" /\ \A c \in DOMAIN ClassDecl : \A y \in DOMAIN ClassDecl[c].dct : ClassDecl[c].dct[y] # f

(***************************************************************************)
(* The descriptor getattr(self, attr) / setattr(self, attr, v) finds: the  *)
(* class attribute, looked up along the method resolution order (the class *)
(* itself, then its bases left to right).                                  *)
(***************************************************************************)
RECURSIVE Descriptor(_, _)
RECURSIVE FirstBase(_, _)
FirstBase(bases, attr) ==
  IF bases = <<>> THEN ""
  ELSE IF Descriptor(Head(bases), attr) # "" THEN Descriptor(Head(bases), attr)
  ELSE FirstBase(Tail(bases), attr)

Descriptor(c, attr) ==
  IF attr \in DOMAIN ClassDecl[c].dct THEN ClassDecl[c].dct[attr]
  ELSE FirstBase(ClassDecl[c].bases, attr)

(***************************************************************************)
(* Leaf codecs.  TLC cannot take a string apart, so the texts of the model *)
(* are tabulated: what str(), int(), Decimal() and strptime make of them.  *)
(***************************************************************************)
Stamps == {"t1", "t2"}

\* datetime.isoformat() of the datetime with id t, microsecond 0
IsoFormat(t) == IF t = "t1" THEN "2007-04-01T15:30:00" ELSE "2008-05-02T16:40:00"

Digits == <<"1", "2", "3", "4", "5", "6", "7", "8", "9">>

\* unicode_type(value)
unicode_type(v) ==
  CASE v.k = "text" -> v
    [] v.k = "null" -> Text("None")
    [] v.k = "int" -> Text(IF v.r \in 1..9 THEN Digits[v.r] ELSE "0")
    [] v.k = "decimal" -> Text(v.v)
    [] v.k = "datetime" -> Text(IsoFormat(v.v) \o " us")
    [] OTHER -> Text("repr")

NumericTexts == {"7", "1.5"}

\* int(value)
int(v) ==
  CASE v.k = "int" -> v
    [] v.k = "text" /\ v.v = "7" -> Num(7)
    [] v.k = "text" /\ v.v # "7" -> Raise("ValueError")
    [] v.k = "decimal" -> Num(IF v.v = "7" THEN 7 ELSE 1)
    [] OTHER -> Raise("TypeError")

\* Decimal(value)
DecimalOf(v) ==
  CASE v.k = "decimal" -> v
    [] v.k = "int" -> Decimal(unicode_type(v).v)
    [] v.k = "text" /\ v.v \in NumericTexts -> Decimal(v.v)
    [] v.k = "text" /\ v.v \notin NumericTexts -> Raise("InvalidOperation")
    [] OTHER -> Raise("TypeError")

\* DateTimeField._to_python: a text loses what follows the first '.', then
\* its trailing 'Z's, and must then match %Y-%m-%dT%H:%M:%S
DateTime_to_python(v) ==
  IF v.k = "text"
  THEN IF \E t \in Stamps : v.v \in {IsoFormat(t), IsoFormat(t) \o "Z", IsoFormat(t) \o ".009876Z"}
       THEN DateTime(CHOOSE t \in Stamps :
                       v.v \in {IsoFormat(t), IsoFormat(t) \o "Z", IsoFormat(t) \o ".009876Z"}, 0)
       ELSE Raise("ValueError")
  ELSE v

\* DateTimeField._to_json (no struct_time and no date in the model: what is
\* not a datetime goes to datetime.combine, which raises TypeError)
DateTime_to_json(v) ==
  LET w == IF v.k = "text" THEN DateTime_to_python(v) ELSE v
  IN  CASE w.k = "raise" -> w
        [] w.k = "datetime" -> Text(IsoFormat(w.v) \o "Z")
        [] OTHER -> Raise("TypeError")

(***************************************************************************)
(* The interpreter state threaded through the calls: s.h the heap, s.c the *)
(* number of times each callable default was called.  A call returns       *)
(* [s, v]: the state it leaves and its value, Raise(t) when it raised.     *)
(***************************************************************************)
Ret(s, v) == [s |-> s, v |-> v]
Raised(r) == r.v.k = "raise"

\* a new object
Alloc(s, obj) == [s EXCEPT !.h = Append(@, obj)]
NewAddr(s) == Len(s.h) + 1

\* list and dict updates in place
SetList(s, a, l) == [s EXCEPT !.h[a].l = l]
SetDict(s, a, d) == [s EXCEPT !.h[a].d = d]

\* the value tree under v, addresses erased: what == compares
RECURSIVE Tree(_, _)
Tree(h, v) ==
  CASE v.k \in {"dict", "Record"} ->
         [k |-> v.k, r |-> 0, v |-> v.v,
          z |-> [x \in DOMAIN h[v.r].d |-> Tree(h, h[v.r].d[x])]]
    [] v.k \in {"list", "Proxy"} ->
         [k |-> v.k, r |-> 0, v |-> v.v,
          z |-> [i \in DOMAIN h[v.r].l |-> Tree(h, h[v.r].l[i])]]
    [] OTHER -> [k |-> v.k, r |-> v.r, v |-> v.v, z |-> <<>>]

\* raw form: None, number, text, list or dict of raw values
RECURSIVE IsRaw(_, _)
IsRaw(h, v) ==
  CASE v.k \in {"null", "int", "text", "bool"} -> TRUE
    [] v.k = "dict" -> \A x \in DOMAIN h[v.r].d : IsRaw(h, h[v.r].d[x])
    [] v.k = "list" -> \A i \in DOMAIN h[v.r].l : IsRaw(h, h[v.r].l[i])
    [] OTHER -> FALSE

(***************************************************************************)
(* Field, DictField, ListField and Mapping.__init__, which call each       *)
(* other.  f is a descriptor id, a the address of an instance's _data.     *)
(* Then(r, K) is sequencing: K goes on from the result r of a call unless  *)
(* the call raised, and then the exception is what the whole returns.      *)
(***************************************************************************)
Then(r, K(_)) == IF Raised(r) THEN r ELSE K(r)

RECURSIVE _to_python(_, _, _)
RECURSIVE _to_json(_, _, _)
RECURSIVE Field__get__(_, _, _)
RECURSIVE Field__set__(_, _, _, _)
RECURSIVE Mapping__init__(_, _, _)
RECURSIVE from_kwargs(_, _, _)
RECURSIVE InitFields(_, _, _, _, _)
RECURSIVE ListComp(_, _, _, _, _)

\* the object the default callable of a DictField or ListField returns: a
\* shallow copy of the default (default.copy(), copy.copy(default))
ShallowCopy(s, v) ==
  IF v.k = "dict"
  THEN Ret(Alloc(s, DictObj(s.h[v.r].d)), DictRef(NewAddr(s)))
  ELSE Ret(Alloc(s, ListObj(s.h[v.r].l)), ListRef(NewAddr(s)))

\* the default callable of descriptor f is called: datetime.now for a leaf,
\* the copying lambda for DictField / ListField
CallDefault(s, f) ==
  IF FieldDecl[f].dval.k \in {"dict", "list"}
  THEN ShallowCopy([s EXCEPT !.c[f] = @ + 1], FieldDecl[f].dval)
  ELSE Ret([s EXCEPT !.c[f] = @ + 1], FieldDecl[f].dval)

\* Mapping.get(name): self._data[name], None on KeyError
MappingGet(s, a, name) ==
  IF name \in DOMAIN s.h[a].d THEN s.h[a].d[name] ELSE None

\* a Field.__get__ that falls back to the default only when the key is absent
Field__get__KeyError(s, f, a) ==
  IF BoundName(f) \in DOMAIN s.h[a].d
  THEN IF s.h[a].d[BoundName(f)] # None
       THEN _to_python(s, f, s.h[a].d[BoundName(f)])
       ELSE Ret(s, None)
  ELSE IF FieldDecl[f].dkind = "callable" THEN CallDefault(s, f)
  ELSE IF FieldDecl[f].dkind = "value" THEN Ret(s, FieldDecl[f].dval)
  ELSE Ret(s, None)

Field__get__(s, f, a) ==
  IF MappingGet(s, a, BoundName(f)) # None
  THEN _to_python(s, f, MappingGet(s, a, BoundName(f)))
  ELSE IF FieldDecl[f].dkind = "callable" THEN CallDefault(s, f)
  ELSE IF FieldDecl[f].dkind = "value" THEN Ret(s, FieldDecl[f].dval)
  ELSE Ret(s, None)

\* instance[self.name] = value
MappingSet(s, a, name, value) ==
  Ret(SetDict(s, a, DictPut(s.h[a].d, name, value)), None)

Field__set__(s, f, a, value) ==
  Then(IF value # None THEN _to_json(s, f, value) ELSE Ret(s, value),
       LAMBDA r : MappingSet(r.s, a, BoundName(f), r.v))

\* a Mapping.__init__ that sets the fields given and leaves the others out
InitFields_Given(s, c, attrs, values, a) ==
  IF attrs = <<>> THEN Ret(s, Record(c, a))
  ELSE IF Head(attrs) \in DOMAIN values
  THEN Then(Field__set__(s, Descriptor(c, Head(attrs)), a, values[Head(attrs)]),
            LAMBDA r : InitFields(r.s, c, Tail(attrs), values, a))
  ELSE InitFields(s, c, Tail(attrs), values, a)

\* the loop of Mapping.__init__ over the attributes left to walk
InitFields(s, c, attrs, values, a) ==
  IF attrs = <<>> THEN Ret(s, Record(c, a))
  ELSE Then(Then(IF Head(attrs) \in DOMAIN values
                 THEN Ret(s, values[Head(attrs)])
                 ELSE Field__get__(s, Descriptor(c, Head(attrs)), a),
                 LAMBDA g : Field__set__(g.s, Descriptor(c, Head(attrs)), a, g.v)),
            LAMBDA r : InitFields(r.s, c, Tail(attrs), values, a))

\* Mapping.__init__(values): values the contents of the dict given
Mapping__init__(s, c, values) ==
  InitFields(Alloc(s, DictObj(EmptyDict)), c,
             SelectSeq(ClassDecl[c].attrs, LAMBDA x : x \in DOMAIN Fields(c)),
             values, NewAddr(s))

\* cls.from_kwargs(**value): value must be a mapping
from_kwargs(s, c, value) ==
  IF value.k \in {"dict", "Record"}
  THEN Mapping__init__(s, c, s.h[value.r].d)
  ELSE Ret(s, Raise("TypeError"))

\* a ListField._to_python whose Proxy is over a copy of value
ListField_to_python_Copy(s, f, value) ==
  Ret(Alloc(s, ListObj(s.h[value.r].l)), Proxy(FieldDecl[f].field, NewAddr(s)))

\* ListField._to_python: self.Proxy(value, self.field), over value itself
ListField_to_python(s, f, value) == Ret(s, Proxy(FieldDecl[f].field, value.r))

_to_python(s, f, value) ==
  CASE FieldDecl[f].fcls = "TextField" -> Ret(s, unicode_type(value))
    [] FieldDecl[f].fcls = "IntegerField" -> Ret(s, int(value))
    [] FieldDecl[f].fcls = "DecimalField" -> Ret(s, DecimalOf(value))
    [] FieldDecl[f].fcls = "DateTimeField" -> Ret(s, DateTime_to_python(value))
    [] FieldDecl[f].fcls = "DictField" ->
         IF FieldDecl[f].mapping = "" THEN Ret(s, value)
         ELSE from_kwargs(s, FieldDecl[f].mapping, value)
    [] FieldDecl[f].fcls = "ListField" -> ListField_to_python(s, f, value)

\* [self.field._to_json(item) for item in value], acc the items made so far;
\* iterating a Proxy converts each raw item with the Proxy's own field first
ListComp(s, f, value, i, acc) ==
  IF i > Len(s.h[value.r].l)
  THEN Ret(Alloc(s, ListObj(acc)), ListRef(NewAddr(s)))
  ELSE Then(Then(IF value.k = "Proxy"
                 THEN _to_python(s, value.v, s.h[value.r].l[i])
                 ELSE Ret(s, s.h[value.r].l[i]),
                 LAMBDA it : _to_json(it.s, f, it.v)),
            LAMBDA r : ListComp(r.s, f, value, i + 1, Append(acc, r.v)))

\* a DictField._to_json that stores the Record it made instead of its _data
unwrap_Record(r) == Ret(r.s, r.v)

\* value.unwrap(): the Record's _data itself
unwrap(r) == Ret(r.s, DictRef(r.v.r))

_to_json(s, f, value) ==
  CASE FieldDecl[f].fcls = "TextField" -> Ret(s, unicode_type(value))
    [] FieldDecl[f].fcls = "IntegerField" -> Ret(s, int(value))
    [] FieldDecl[f].fcls = "DecimalField" -> Ret(s, unicode_type(value))
    [] FieldDecl[f].fcls = "DateTimeField" -> Ret(s, DateTime_to_json(value))
    [] FieldDecl[f].fcls = "DictField" ->
         IF FieldDecl[f].mapping = "" THEN Ret(s, value)
         ELSE Then(IF value.k = "Record" THEN Ret(s, value)
                   ELSE from_kwargs(s, FieldDecl[f].mapping, value),
                   unwrap)
    [] FieldDecl[f].fcls = "ListField" ->
         \* (a text or a dict given to a ListField is not in the model)
         CASE value.k \in {"list", "Proxy"} ->
                ListComp(s, FieldDecl[f].field, value, 1, <<>>)
           [] value.k \in {"null", "int", "datetime", "decimal"} ->
                Ret(s, Raise("TypeError"))

(***************************************************************************)
(* ListField.Proxy.  p is a Proxy value: p.r the address of self.list,     *)
(* p.v the id of self.field.  Indexes are the non-negative ones, 0-based.  *)
(***************************************************************************)
\* list.insert(idx, x)
ListInsert(l, idx, x) ==
  IF idx > Len(l) THEN Append(l, x)
  ELSE SubSeq(l, 1, idx) \o <<x>> \o SubSeq(l, idx + 1, Len(l))

\* del list[idx]
ListDelete(l, idx) == SubSeq(l, 1, idx) \o SubSeq(l, idx + 2, Len(l))

\* the 1-based position of the first item equal to x, 0 when there is none
ListFind(h, l, x) ==
  IF \E i \in DOMAIN l : Tree(h, l[i]) = Tree(h, x)
  THEN CHOOSE i \in DOMAIN l :
         /\ Tree(h, l[i]) = Tree(h, x)
         /\ \A j \in 1..(i - 1) : Tree(h, l[j]) # Tree(h, x)
  ELSE 0

\* the value append and insert convert: the one positional argument, or the
\* keyword arguments when there is no positional one and the element field
\* is a DictField
ProxyValue(s, p, args, kwargs) ==
  IF args # <<>> \/ FieldDecl[p.v].fcls # "DictField"
  THEN IF Len(args) # 1 THEN Ret(s, Raise("TypeError")) ELSE Ret(s, args[1])
  ELSE Ret(Alloc(s, DictObj(kwargs)), DictRef(NewAddr(s)))

\* self.list.append(x)
ListAppend(s, a, x) == Ret(SetList(s, a, Append(s.h[a].l, x)), None)

Proxy_append(s, p, args, kwargs) ==
  Then(Then(ProxyValue(s, p, args, kwargs), LAMBDA a : _to_json(a.s, p.v, a.v)),
       LAMBDA r : ListAppend(r.s, p.r, r.v))

Proxy_insert(s, p, idx, args, kwargs) ==
  Then(Then(ProxyValue(s, p, args, kwargs), LAMBDA a : _to_json(a.s, p.v, a.v)),
       LAMBDA r : Ret(SetList(r.s, p.r, ListInsert(r.s.h[p.r].l, idx, r.v)), None))

\* for item in list: self.append(item)
RECURSIVE Proxy_extend(_, _, _)
Proxy_extend(s, p, list) ==
  IF list = <<>> THEN Ret(s, None)
  ELSE Then(Proxy_append(s, p, <<Head(list)>>, EmptyDict),
            LAMBDA r : Proxy_extend(r.s, p, Tail(list)))

Proxy__getitem__(s, p, index) ==
  IF index >= Len(s.h[p.r].l) THEN Ret(s, Raise("IndexError"))
  ELSE _to_python(s, p.v, s.h[p.r].l[index + 1])

\* list[index] = x
ListSetItem(s, a, index, x) ==
  IF index >= Len(s.h[a].l) THEN Ret(s, Raise("IndexError"))
  ELSE Ret(SetList(s, a, [s.h[a].l EXCEPT ![index + 1] = x]), None)

Proxy__setitem__(s, p, index, value) ==
  Then(_to_json(s, p.v, value), LAMBDA r : ListSetItem(r.s, p.r, index, r.v))

Proxy__delitem__(s, p, index) ==
  IF index >= Len(s.h[p.r].l) THEN Ret(s, Raise("IndexError"))
  ELSE Ret(SetList(s, p.r, ListDelete(s.h[p.r].l, index)), None)

\* the generator (self.field._to_json(v) for v in seq), run to its end
\* into a list of its own
RECURSIVE GenToJson(_, _, _, _)
GenToJson(s, f, seq, acc) ==
  IF seq = <<>> THEN Ret(Alloc(s, ListObj(acc)), ListRef(NewAddr(s)))
  ELSE Then(_to_json(s, f, Head(seq)),
            LAMBDA r : GenToJson(r.s, f, Tail(seq), Append(acc, r.v)))

\* list[i:j] = items
ListSetSlice(l, i, j, items) ==
  SubSeq(l, 1, IF i > Len(l) THEN Len(l) ELSE i) \o items
  \o SubSeq(l, (IF j > Len(l) THEN Len(l) ELSE IF j < i THEN i ELSE j) + 1, Len(l))

\* self.list[i:j] = generator: the list takes the items once the generator
\* is exhausted
Proxy__setslice__(s, p, i, j, seq) ==
  Then(GenToJson(s, p.v, seq, <<>>),
       LAMBDA g : Ret(SetList(g.s, p.r, ListSetSlice(g.s.h[p.r].l, i, j, g.s.h[g.v.r].l)),
                      None))

\* list.index(x)
ListIndex(s, a, x) ==
  IF ListFind(s.h, s.h[a].l, x) = 0 THEN Ret(s, Raise("ValueError"))
  ELSE Ret(s, Num(ListFind(s.h, s.h[a].l, x) - 1))

\* list.remove(x)
ListRemove(s, a, x) ==
  IF ListFind(s.h, s.h[a].l, x) = 0 THEN Ret(s, Raise("ValueError"))
  ELSE Ret(SetList(s, a, ListDelete(s.h[a].l, ListFind(s.h, s.h[a].l, x) - 1)), None)

Proxy_index(s, p, value) ==
  Then(_to_json(s, p.v, value), LAMBDA r : ListIndex(r.s, p.r, r.v))

Proxy_remove(s, p, value) ==
  Then(_to_json(s, p.v, value), LAMBDA r : ListRemove(r.s, p.r, r.v))

\* list.pop(*args): the item at args[1], the last one without arguments
ListPop(s, a, idx) ==
  IF idx < 0 \/ idx >= Len(s.h[a].l) THEN Ret(s, Raise("IndexError"))
  ELSE Ret(SetList(s, a, ListDelete(s.h[a].l, idx)), s.h[a].l[idx + 1])

\* self.field._to_python(self.list.pop(*args)): the item leaves the list
\* before it is converted
Proxy_pop(s, p, args) ==
  Then(ListPop(s, p.r, IF args = <<>> THEN Len(s.h[p.r].l) - 1 ELSE args[1]),
       LAMBDA r : _to_python(r.s, p.v, r.v))

(***************************************************************************)
(* The caller.  It holds Records (recs) and the other objects a read has   *)
(* returned (objs: Proxies, dicts, lists), and passes literals, which are  *)
(* built on the heap when the call is made:                                *)
(*   a value, [k |-> "D", keys, vals] a dict, [k |-> "L", items] a list,   *)
(*   [k |-> "H", i] the Record recs[i], [k |-> "O", i] the object objs[i]. *)
(***************************************************************************)
LitDict(keys, vals) == [k |-> "D", keys |-> keys, vals |-> vals]
LitList(items) == [k |-> "L", items |-> items]
HeldRec(i) == [k |-> "H", i |-> i]
HeldObj(i) == [k |-> "O", i |-> i]

SeqToDict(keys, vals) ==
  [x \in {keys[i] : i \in DOMAIN keys} |-> vals[CHOOSE i \in DOMAIN keys : keys[i] = x]]

RECURSIVE BuildLit(_, _)
RECURSIVE BuildSeq(_, _, _)

\* b.v is the list of the values built so far, kept on the heap
BuildSeq(s, lits, acc) ==
  IF lits = <<>> THEN Ret(s, acc)
  ELSE Then(BuildLit(s, Head(lits)),
            LAMBDA r : BuildSeq(r.s, Tail(lits), Append(acc, r.v)))

NewDict(b, keys) == Ret(Alloc(b.s, DictObj(SeqToDict(keys, b.v))), DictRef(NewAddr(b.s)))
NewList(b) == Ret(Alloc(b.s, ListObj(b.v)), ListRef(NewAddr(b.s)))

BuildLit(s, lit) ==
  CASE lit.k = "D" -> NewDict(BuildSeq(s, lit.vals, <<>>), lit.keys)
    [] lit.k = "L" -> NewList(BuildSeq(s, lit.items, <<>>))
    [] lit.k = "H" -> Ret(s, recs[lit.i].v)
    [] lit.k = "O" -> Ret(s, objs[lit.i].v)
    [] OTHER -> Ret(s, lit)

\* the literal as a value tree (no handles in it)
RECURSIVE LitTree(_)
LitTree(lit) ==
  CASE lit.k = "D" ->
         [k |-> "dict", r |-> 0, v |-> "",
          z |-> [x \in {lit.keys[i] : i \in DOMAIN lit.keys} |->
                  LitTree(lit.vals[CHOOSE i \in DOMAIN lit.keys : lit.keys[i] = x])]]
    [] lit.k = "L" ->
         [k |-> "list", r |-> 0, v |-> "",
          z |-> [i \in DOMAIN lit.items |-> LitTree(lit.items[i])]]
    [] OTHER -> [k |-> lit.k, r |-> lit.r, v |-> lit.v, z |-> <<>>]

DtText == Text("2007-04-01T15:30:00Z")

\* What a record of class c is constructed from.  byname: a raw mapping
\* keyed by the field names, of raw values in canonical form.
CtorInputs(c) ==
  CASE c = "Author" ->
         << [byname |-> TRUE, m |-> LitDict(<<>>, <<>>)],
            [byname |-> TRUE, m |-> LitDict(<<"name", "email">>, <<Text("x"), Text("e")>>)],
            [byname |-> FALSE, m |-> LitDict(<<"name", "mail">>, <<Text("x"), Text("e")>>)] >>
    [] c = "Person" ->
         << [byname |-> TRUE, m |-> LitDict(<<>>, <<>>)],
            [byname |-> TRUE, m |-> LitDict(<<"name", "added">>, <<Text("x"), DtText>>)],
            [byname |-> TRUE, m |-> LitDict(<<"added">>, <<None>>)],
            [byname |-> FALSE, m |-> LitDict(<<"added">>, <<DateTime("t2", 5)>>)] >>
    [] c = "Post" ->
         << [byname |-> TRUE, m |-> LitDict(<<>>, <<>>)],
            [byname |-> TRUE,
             m |-> LitDict(<<"author", "extra">>,
                     <<LitDict(<<"name", "email">>, <<Text("x"), Text("e")>>),
                       LitDict(<<"k">>, <<LitList(<<Text("v")>>)>>)>>)],
            [byname |-> FALSE,
             m |-> LitDict(<<"author">>, <<LitDict(<<"name", "mail">>, <<Text("x"), Text("e")>>)>>)] >>
    [] c = "Blog" ->
         << [byname |-> TRUE, m |-> LitDict(<<>>, <<>>)],
            [byname |-> TRUE,
             m |-> LitDict(<<"times", "comments">>,
                     <<LitList(<<DtText>>),
                       LitList(<<LitDict(<<"name", "email">>, <<Text("x"), Text("e")>>)>>)>>)],
            [byname |-> TRUE, m |-> LitDict(<<"times">>, <<None>>)] >>
    [] c \in {"A", "B", "C", "D"} ->
         << [byname |-> TRUE, m |-> LitDict(<<>>, <<>>)],
            [byname |-> TRUE, m |-> LitDict(<<"n">>, <<Text("7")>>)] >>

\* the values a caller writes through descriptor f, or hands to a Proxy
\* whose element descriptor is f
TypedInputs(f) ==
  LET fcls == FieldDecl[f].fcls
  IN  CASE fcls = "TextField" -> <<None, Text("y")>>
        [] fcls = "IntegerField" -> <<None, Num(3), Text("x")>>
        [] fcls = "DecimalField" -> <<None, Decimal("1.5")>>
        [] fcls = "DateTimeField" -> <<None, DateTime("t1", 0), DateTime("t2", 5), Num(3)>>
        [] fcls = "DictField" /\ FieldDecl[f].mapping # "" ->
             <<None, LitDict(<<"name", "mail">>, <<Text("y"), Text("f")>>), Text("bad")>>
             \o SelectSeq([i \in 1..Len(recs) |-> HeldRec(i)],
                          LAMBDA x : recs[x.i].v.v = FieldDecl[f].mapping)
        [] fcls = "DictField" /\ FieldDecl[f].mapping = "" ->
             <<None, LitDict(<<"k">>, <<Text("w")>>)>>
        [] fcls = "ListField" /\ FieldDecl[f].field = "elt.dt" ->
             <<None, LitList(<<DateTime("t2", 5)>>), LitList(<<DateTime("t2", 5), Num(3)>>)>>
             \o SelectSeq([i \in 1..Len(objs) |-> HeldObj(i)],
                          LAMBDA x : objs[x.i].v.k \in {"Proxy", "list"})
        [] fcls = "ListField" /\ FieldDecl[f].field # "elt.dt" ->
             <<None, LitList(<<LitDict(<<"name">>, <<Text("y")>>)>>)>>

(***************************************************************************)
(* State.                                                                  *)
(*   heap   the objects                                                    *)
(*   calls  how often each descriptor's callable default was called        *)
(*   recs   the Records the caller holds: [v, how, rec, attr, inp], made   *)
(*          by a constructor call (how = "ctor") from input inp, read from *)
(*          field attr of recs[rec] ("read") or from an item of a Proxy    *)
(*          read from there ("item")                                       *)
(*   objs   the other objects read: [v, rec, attr, stale], stale once the  *)
(*          field it was read from has been written again                  *)
(*   last   the last call: what was called, on what, with what, the heap   *)
(*          and calls before it, and how it ended                          *)
(*   steps  the number of calls the caller still makes                     *)
(***************************************************************************)
St == [h |-> heap, c |-> calls]

NoLast ==
  [op |-> "", raised |-> FALSE, ret |-> None, h0 |-> <<>>,
   c0 |-> [f \in DOMAIN FieldDecl |-> 0], cls |-> "", rec |-> 0, obj |-> 0,
   attr |-> "", f |-> "", arg |-> None, nargs |-> 0, nkw |-> 0, inp |-> 0,
   idx |-> 0]

Init ==
  /\ heap = ClassHeap
  /\ calls = [f \in DOMAIN FieldDecl |-> 0]
  /\ recs = <<>>
  /\ objs = <<>>
  /\ last = NoLast
  /\ steps = MaxSteps

\* the views read from the field named name of recs[i] are stale
Stale(i, name) ==
  [j \in DOMAIN objs |->
     IF objs[j].rec = i /\ BoundName(Descriptor(recs[i].v.v, objs[j].attr)) = name
     THEN [objs[j] EXCEPT !.stale = TRUE] ELSE objs[j]]

\* what the caller holds after a call that returned r: the Record a
\* constructor made ("ctor"), the Record or object a read returned ("read",
\* "item"; nothing when it holds MaxRecs or MaxObjs already); after a write
\* to the field named x of recs[i] ("write") the views of it are stale
Held(r, mode, i, x) ==
  IF Raised(r) \/ mode = "none" THEN <<recs, objs>>
  ELSE IF mode = "write" THEN <<recs, Stale(i, x)>>
  ELSE IF r.v.k = "Record" /\ Len(recs) < MaxRecs
  THEN <<Append(recs, [v |-> r.v, how |-> mode, attr |-> x,
                       rec |-> IF mode = "ctor" THEN 0 ELSE i,
                       inp |-> IF mode = "ctor" THEN i ELSE 0]), objs>>
  ELSE IF r.v.k \in {"Proxy", "dict", "list"} /\ Len(objs) < MaxObjs
  THEN <<recs, Append(objs, [v |-> r.v, rec |-> i, attr |-> x, stale |-> FALSE])>>
  ELSE <<recs, objs>>

\* the call ends: its effects on the heap stay, whether it raised or not
Done(r, l, mode, i, x) ==
  /\ heap' = r.s.h
  /\ calls' = r.s.c
  /\ last' = [l EXCEPT !.raised = Raised(r), !.ret = r.v, !.h0 = heap, !.c0 = calls]
  /\ recs' = Held(r, mode, i, x)[1]
  /\ objs' = Held(r, mode, i, x)[2]
  /\ steps' = steps - 1

\* cls(values): b the dict built for the call
Construct_(b, c) == Mapping__init__(b.s, c, b.s.h[b.v.r].d)

\* r = cls.from_kwargs(**m), m the i-th input of the class
Construct(c, i) ==
  /\ steps > 0
  /\ Len(recs) < MaxRecs
  /\ Done(Construct_(BuildLit(St, CtorInputs(c)[i].m), c),
          [NoLast EXCEPT !.op = "construct", !.cls = c, !.inp = i, !.rec = Len(recs) + 1],
          "ctor", i, "")

\* descriptor.__set__(instance, value): b the value built for the call
SetAttr_(b, f, a) == Field__set__(b.s, f, a, b.v)

\* setattr(recs[i], attr, value), value the j-th typed input of the field
SetAttr(i, attr, j) ==
  /\ steps > 0
  /\ LET f == Descriptor(recs[i].v.v, attr)
     IN  Done(SetAttr_(BuildLit(St, TypedInputs(f)[j]), f, recs[i].v.r),
              [NoLast EXCEPT !.op = "setattr", !.rec = i, !.attr = attr, !.f = f,
                             !.inp = j, !.cls = recs[i].v.v],
              "write", i, BoundName(f))

\* getattr(recs[i], attr)
GetAttr(i, attr) ==
  /\ steps > 0
  /\ LET f == Descriptor(recs[i].v.v, attr)
     IN  Done(Field__get__(St, f, recs[i].v.r),
              [NoLast EXCEPT !.op = "getattr", !.rec = i, !.attr = attr, !.f = f,
                             !.cls = recs[i].v.v],
              "read", i, attr)

\* recs[i][name] = None: Mapping.__setitem__, no conversion
SetItemRaw(i, name) ==
  /\ steps > 0
  /\ Done(MappingSet(St, recs[i].v.r, name, None),
          [NoLast EXCEPT !.op = "setitem", !.rec = i, !.attr = name, !.cls = recs[i].v.v],
          "write", i, name)

\* del self._data[name]
Mapping__delitem__(s, a, name) ==
  IF name \in DOMAIN s.h[a].d
  THEN Ret(SetDict(s, a, DictDel(s.h[a].d, name)), None)
  ELSE Ret(s, Raise("KeyError"))

\* del recs[i][name]
DelItemRaw(i, name) ==
  /\ steps > 0
  /\ Done(Mapping__delitem__(St, recs[i].v.r, name),
          [NoLast EXCEPT !.op = "delitem", !.rec = i, !.attr = name, !.cls = recs[i].v.v],
          "write", i, name)

(***************************************************************************)
(* Calls on a Proxy the caller holds, objs[o].                             *)
(***************************************************************************)
IsProxy(o) == objs[o].v.k = "Proxy"

\* the lists handed to extend and to a slice assignment
ListInputs(f) ==
  IF FieldDecl[f].fcls = "DateTimeField"
  THEN << <<DateTime("t1", 0)>>, <<DateTime("t1", 0), Num(3)>>,
          <<DateTime("t2", 5), DateTime("t1", 0)>> >>
  ELSE << <<LitDict(<<"name">>, <<Text("y")>>)>>,
          <<LitDict(<<"name">>, <<Text("y")>>), Text("bad")>> >>

\* the keyword arguments of a call that carries some
SomeKwargs == [x \in {"name"} |-> Text("k")]
Kwargs(kw) == IF kw THEN SomeKwargs ELSE EmptyDict

\* n positional arguments, each the value b.v built for the call
Args(b, n) == [x \in 1..n |-> b.v]

ProxyLast(op, o) ==
  [NoLast EXCEPT !.op = op, !.obj = o, !.f = objs[o].v.v, !.rec = objs[o].rec,
                 !.attr = objs[o].attr]

Append__(b, p, n, kw) == Proxy_append(b.s, p, Args(b, n), Kwargs(kw))

\* objs[o].append(*args, **kwargs): n positional arguments, each the j-th
\* typed input of the element field, and keyword arguments or none
Append_(o, n, j, kw) ==
  /\ steps > 0
  /\ IsProxy(o)
  /\ Done(Append__(BuildLit(St, TypedInputs(objs[o].v.v)[j]), objs[o].v, n, kw),
          [ProxyLast("append", o) EXCEPT !.nargs = n, !.nkw = IF kw THEN 1 ELSE 0, !.inp = j],
          "none", 0, "")

Insert_(b, p, idx, n, kw) == Proxy_insert(b.s, p, idx, Args(b, n), Kwargs(kw))

\* objs[o].insert(idx, *args, **kwargs)
Insert(o, idx, n, j, kw) ==
  /\ steps > 0
  /\ IsProxy(o)
  /\ Done(Insert_(BuildLit(St, TypedInputs(objs[o].v.v)[j]), objs[o].v, idx, n, kw),
          [ProxyLast("insert", o) EXCEPT !.nargs = n, !.nkw = IF kw THEN 1 ELSE 0,
                                         !.idx = idx, !.inp = j],
          "none", 0, "")

Extend_(b, p) == Proxy_extend(b.s, p, b.v)

\* objs[o].extend(list), list the k-th list input of the element field
Extend(o, k) ==
  /\ steps > 0
  /\ IsProxy(o)
  /\ Done(Extend_(BuildSeq(St, ListInputs(objs[o].v.v)[k], <<>>), objs[o].v),
          [ProxyLast("extend", o) EXCEPT !.inp = k], "none", 0, "")

SetItem_(b, p, idx) == Proxy__setitem__(b.s, p, idx, b.v)

\* objs[o][idx] = value
SetItem(o, idx, j) ==
  /\ steps > 0
  /\ IsProxy(o)
  /\ Done(SetItem_(BuildLit(St, TypedInputs(objs[o].v.v)[j]), objs[o].v, idx),
          [ProxyLast("setitem_", o) EXCEPT !.idx = idx, !.inp = j], "none", 0, "")

SetSlice_(b, p, i, j) == Proxy__setslice__(b.s, p, i, j, b.v)

\* objs[o][i:j] = seq
SetSlice(o, i, j, k) ==
  /\ steps > 0
  /\ IsProxy(o)
  /\ Done(SetSlice_(BuildSeq(St, ListInputs(objs[o].v.v)[k], <<>>), objs[o].v, i, j),
          [ProxyLast("setslice", o) EXCEPT !.idx = i, !.inp = k], "none", 0, "")

\* del objs[o][idx]
DelItem(o, idx) ==
  /\ steps > 0
  /\ IsProxy(o)
  /\ Done(Proxy__delitem__(St, objs[o].v, idx),
          [ProxyLast("delitem_", o) EXCEPT !.idx = idx], "none", 0, "")

\* objs[o][idx]
GetItem(o, idx) ==
  /\ steps > 0
  /\ IsProxy(o)
  /\ Done(Proxy__getitem__(St, objs[o].v, idx),
          [ProxyLast("getitem", o) EXCEPT !.idx = idx],
          "item", objs[o].rec, objs[o].attr)

Index_(b, p) == Proxy_index(b.s, p, b.v)

\* objs[o].index(value)
Index(o, j) ==
  /\ steps > 0
  /\ IsProxy(o)
  /\ Done(Index_(BuildLit(St, TypedInputs(objs[o].v.v)[j]), objs[o].v),
          [ProxyLast("index", o) EXCEPT !.inp = j], "none", 0, "")

Remove_(b, p) == Proxy_remove(b.s, p, b.v)

\* objs[o].remove(value)
Remove(o, j) ==
  /\ steps > 0
  /\ IsProxy(o)
  /\ Done(Remove_(BuildLit(St, TypedInputs(objs[o].v.v)[j]), objs[o].v),
          [ProxyLast("remove", o) EXCEPT !.inp = j], "none", 0, "")

\* objs[o].pop(*args)
Pop(o, args) ==
  /\ steps > 0
  /\ IsProxy(o)
  /\ Done(Proxy_pop(St, objs[o].v, args),
          [ProxyLast("pop", o) EXCEPT !.nargs = Len(args)], "none", 0, "")

(***************************************************************************)
(* The caller changes, in place, the dict or list a read handed to it      *)
(* (DictField._to_python with no mapping returns the stored object itself, *)
(* Field.__get__ the copy the default callable made): at the top,          *)
(* obj['k'] = 'z' or obj.append('z'), or one level down, in the list       *)
(* obj[key].                                                               *)
(***************************************************************************)
MutateObj(s, v, key) ==
  CASE v.k = "list" /\ key = "" -> ListAppend(s, v.r, Text("z"))
    [] v.k = "dict" /\ key = "" -> MappingSet(s, v.r, "k", Text("z"))
    [] v.k = "dict" /\ key # "" /\ key \in DOMAIN s.h[v.r].d ->
         IF s.h[v.r].d[key].k = "list"
         THEN ListAppend(s, s.h[v.r].d[key].r, Text("z"))
         ELSE Ret(s, Raise("AttributeError"))
    [] OTHER -> Ret(s, Raise("KeyError"))

Mutate(o, key) ==
  /\ steps > 0
  /\ objs[o].v.k \in {"dict", "list"}
  /\ Done(MutateObj(St, objs[o].v, key),
          [NoLast EXCEPT !.op = "mutate", !.obj = o, !.attr = key, !.rec = objs[o].rec],
          "none", 0, "")

(***************************************************************************)
(* Specifications.  Spec: MaxSteps calls on records of every class, their  *)
(* fields, and the objects and Proxies read from them.  SpecView:          *)
(* MaxViewSteps calls on Blog records and the Proxies read from their      *)
(* fields.                                                                 *)
(***************************************************************************)
Attrs(i) == DOMAIN Fields(recs[i].v.v)

Proxies == {o \in DOMAIN objs : IsProxy(o)}

\* the arguments of append and insert: n positional ones, each the j-th typed
\* input (the first input when there is none)
ArgShapes(o) ==
  {<<n, j>> \in (0..2) \X (1..Len(TypedInputs(objs[o].v.v))) : n = 0 => j = 1}

Classes == {"Author", "Person", "Post", "Blog", "B", "C", "D"}

Next ==
  \/ \E c \in Classes : \E i \in 1..Len(CtorInputs(c)) : Construct(c, i)
  \/ \E i \in DOMAIN recs : \E attr \in Attrs(i) :
       \E j \in 1..Len(TypedInputs(Descriptor(recs[i].v.v, attr))) : SetAttr(i, attr, j)
  \/ \E i \in DOMAIN recs : \E attr \in Attrs(i) : GetAttr(i, attr)
  \/ \E i \in DOMAIN recs : \E attr \in Attrs(i) :
       SetItemRaw(i, BoundName(Descriptor(recs[i].v.v, attr)))
  \/ \E i \in DOMAIN recs : \E attr \in Attrs(i) :
       DelItemRaw(i, BoundName(Descriptor(recs[i].v.v, attr)))
  \/ \E o \in DOMAIN objs : \E key \in {"", "tags", "k"} : Mutate(o, key)
  \/ \E o \in Proxies : \E a \in ArgShapes(o) : \E kw \in BOOLEAN :
       Append_(o, a[1], a[2], kw)
  \/ \E o \in Proxies : \E a \in ArgShapes(o) : \E kw \in BOOLEAN :
       \E idx \in 0..1 : Insert(o, idx, a[1], a[2], kw)
  \/ \E o \in Proxies : \E k \in 1..Len(ListInputs(objs[o].v.v)) : Extend(o, k)
  \/ \E o \in Proxies : \E idx \in 0..1 :
       \E j \in 1..Len(TypedInputs(objs[o].v.v)) : SetItem(o, idx, j)
  \/ \E o \in Proxies : \E k \in 1..Len(ListInputs(objs[o].v.v)) : SetSlice(o, 0, 1, k)
  \/ \E o \in Proxies : \E idx \in 0..1 : DelItem(o, idx)
  \/ \E o \in Proxies : \E idx \in 0..1 : GetItem(o, idx)
  \/ \E o \in Proxies : \E j \in 1..Len(TypedInputs(objs[o].v.v)) : Index(o, j)
  \/ \E o \in Proxies : \E j \in 1..Len(TypedInputs(objs[o].v.v)) : Remove(o, j)
  \/ \E o \in Proxies : \E args \in {<<>>, <<0>>} : Pop(o, args)

Spec == Init /\ [][Next]_vars

InitView ==
  /\ heap = ClassHeap
  /\ calls = [f \in DOMAIN FieldDecl |-> 0]
  /\ recs = <<>>
  /\ objs = <<>>
  /\ last = NoLast
  /\ steps = MaxViewSteps

NextView ==
  \/ \E i \in 1..Len(CtorInputs("Blog")) : Construct("Blog", i)
  \/ \E i \in DOMAIN recs : \E attr \in Attrs(i) : GetAttr(i, attr)
  \/ \E o \in Proxies : \E a \in ArgShapes(o) : \E kw \in BOOLEAN :
       Append_(o, a[1], a[2], kw)
  \/ \E o \in Proxies : \E a \in ArgShapes(o) : \E kw \in BOOLEAN :
       \E idx \in 0..1 : Insert(o, idx, a[1], a[2], kw)
  \/ \E o \in Proxies : \E k \in 1..Len(ListInputs(objs[o].v.v)) : Extend(o, k)
  \/ \E o \in Proxies : \E idx \in 0..1 :
       \E j \in 1..Len(TypedInputs(objs[o].v.v)) : SetItem(o, idx, j)
  \/ \E o \in Proxies : \E k \in 1..Len(ListInputs(objs[o].v.v)) : SetSlice(o, 0, 1, k)
  \/ \E o \in Proxies : \E idx \in 0..1 : DelItem(o, idx)
  \/ \E o \in Proxies : \E idx \in 0..1 : GetItem(o, idx)
  \/ \E o \in Proxies : \E j \in 1..Len(TypedInputs(objs[o].v.v)) : Index(o, j)
  \/ \E o \in Proxies : \E j \in 1..Len(TypedInputs(objs[o].v.v)) : Remove(o, j)
  \/ \E o \in Proxies : \E args \in {<<>>, <<0>>} : Pop(o, args)

SpecView == InitView /\ [][NextView]_vars

(***************************************************************************)
(* Properties.  Store(i) is the backing store of recs[i], StoreTree(h, i)  *)
(* its contents in heap h, LeafTree(v) the tree of a value without parts.  *)
(***************************************************************************)
Store(i) == recs[i].v.r
StoreTree(h, i) == Tree(h, DictRef(Store(i)))
LeafTree(v) == [k |-> v.k, r |-> v.r, v |-> v.v, z |-> <<>>]
DictTree(z) == [k |-> "dict", r |-> 0, v |-> "", z |-> z]
ListTree(z) == [k |-> "list", r |-> 0, v |-> "", z |-> z]

\* the field names of class c, and the descriptor bound to name x in it
FieldNames(c) == {BoundName(Descriptor(c, a)) : a \in DOMAIN Fields(c)}
FieldNamed(c, x) ==
  Descriptor(c, CHOOSE a \in DOMAIN Fields(c) : BoundName(Descriptor(c, a)) = x)

RawDefault(f) ==
  CASE f = "Person.added" -> LeafTree(DtText)
    [] f = "A.n" -> LeafTree(Text("a"))
    [] f = "B.n" -> LeafTree(Num(7))
    [] f = "Post.extra" -> DictTree([x \in {"tags"} |-> ListTree(<<LeafTree(Text("a"))>>)])
    [] f = "Post.author" -> DictTree([x \in {"name", "email"} |-> LeafTree(None)])
    [] f \in {"Blog.times", "Blog.comments"} -> ListTree(<<>>)
    [] OTHER -> LeafTree(None)

\* the mapping z extended with the raw-form default of every field of class
\* c it has no key for
Extended(c, z) ==
  DictTree([x \in FieldNames(c) |->
             IF x \in DOMAIN z THEN z[x] ELSE RawDefault(FieldNamed(c, x))])

\* C2: a Record constructed from a raw mapping m keyed by the field names,
\* of raw values in canonical form, unwraps to m extended with the raw-form
\* default (or null) of every field absent from m; this holds for fields
\* with an explicit name too, which are looked up under that name.
RoundTrip ==
  (last.op = "construct" /\ ~last.raised /\ CtorInputs(last.cls)[last.inp].byname)
    => StoreTree(heap, last.rec)
         = Extended(last.cls, LitTree(CtorInputs(last.cls)[last.inp].m).z)

\* the descriptor the schema of class c has for attribute x when its own
\* declaration wins and, among the bases, the last one that has x: "" if none
RECURSIVE Governing(_, _)
Governing(c, x) ==
  IF x \in DOMAIN ClassDecl[c].dct THEN ClassDecl[c].dct[x]
  ELSE LET bs == {i \in DOMAIN ClassDecl[c].bases : Governing(ClassDecl[c].bases[i], x) # ""}
       IN  IF bs = {} THEN ""
           ELSE Governing(ClassDecl[c].bases[CHOOSE i \in bs : \A j \in bs : j <= i], x)

AttrNames == UNION {DOMAIN ClassDecl[c].dct : c \in DOMAIN ClassDecl}

\* C8: the schema of a Record type is the union of the declarations of its
\* ancestors and its own; for an attribute declared more than once its own
\* declaration wins and then the last base that has it, both in the schema
\* table and for typed reads and writes.
SchemaInheritance ==
  /\ \A i \in DOMAIN recs :
       LET c == recs[i].v.v
       IN  /\ DOMAIN Fields(c) = {x \in AttrNames : Governing(c, x) # ""}
           /\ \A x \in DOMAIN Fields(c) :
                Fields(c)[x] = Governing(c, x) /\ Descriptor(c, x) = Governing(c, x)
  /\ last.op \in {"getattr", "setattr"} => last.f = Governing(last.cls, last.attr)

\* the keys of the mapping the Record last constructed was made from
GivenKeys == DOMAIN LitTree(CtorInputs(last.cls)[last.inp].m).z

\* what the store of the Record last called had, before the call, for the
\* field the call was about: null when it had no such key
Stored0 ==
  IF BoundName(last.f) \in DOMAIN last.h0[Store(last.rec)].d
  THEN last.h0[Store(last.rec)].d[BoundName(last.f)]
  ELSE None

\* the raw form of what the default of descriptor f gave the constructor: a
\* DictField without a mapping converts nothing, and its default is the
\* dict as it was when the constructor was called
Produced(f) ==
  IF FieldDecl[f].fcls = "DictField" /\ FieldDecl[f].mapping = ""
  THEN Tree(last.h0, FieldDecl[f].dval)
  ELSE RawDefault(f)

\* C6: after construction the store has an entry for every declared field;
\* for a field absent from the input a default producer was called exactly
\* once and its value is in the store in raw form (null without a default);
\* a later read of a field with a stored value returns that value and does
\* not call the producer again.
DefaultMaterialized ==
  /\ (last.op = "construct" /\ ~last.raised) =>
       /\ DOMAIN heap[Store(last.rec)].d = FieldNames(last.cls)
       /\ \A x \in DOMAIN Fields(last.cls) :
            LET f == Descriptor(last.cls, x)
            IN  (x \notin GivenKeys /\ BoundName(f) \notin GivenKeys) =>
                  /\ calls[f] - last.c0[f] = IF FieldDecl[f].dkind = "callable" THEN 1 ELSE 0
                  /\ StoreTree(heap, last.rec).z[BoundName(f)] = Produced(f)
  /\ (last.op = "getattr" /\ Stored0 # None) =>
       /\ ~last.raised
       /\ calls[last.f] = last.c0[last.f]
       /\ FieldDecl[last.f].fcls = "DateTimeField" =>
            Text(IsoFormat(last.ret.v) \o "Z") = Stored0

\* a Person made without 'added' is read: the stored text is what is parsed,
\* and the producer has been called once, by the constructor
DefaultMaterializedWitness ==
  /\ last.op = "getattr" /\ last.f = "Person.added"
  /\ recs[last.rec].how = "ctor" /\ recs[last.rec].inp = 1
  /\ Stored0 = DtText
  /\ last.ret = DateTime("t1", 0)
  /\ calls["Person.added"] = 1

\* C7: a typed read returns the typed image of the stored raw value when
\* that is not null; when the key is absent or holds an explicit null, the
\* field's default (the producer called, if it is one), null without a
\* default.  A typed write of null stores null without conversion.  A read
\* changes no object that was there before it.
TypedRead ==
  /\ last.op = "getattr" =>
       /\ ~last.raised
       /\ SubSeq(heap, 1, Len(last.h0)) = last.h0
       /\ LET d == FieldDecl[last.f]
          IN  IF Stored0 # None
              THEN /\ calls = last.c0
                   /\ CASE d.fcls \in {"TextField", "IntegerField"} -> last.ret = Stored0
                        [] d.fcls = "DecimalField" -> last.ret = Decimal(Stored0.v)
                        [] d.fcls = "DateTimeField" ->
                             /\ last.ret.k = "datetime" /\ last.ret.r = 0
                             /\ Text(IsoFormat(last.ret.v) \o "Z") = Stored0
                        [] d.fcls = "DictField" /\ d.mapping = "" -> last.ret = Stored0
                        [] d.fcls = "DictField" /\ d.mapping # "" ->
                             last.ret.k = "Record" /\ last.ret.v = d.mapping
                        [] d.fcls = "ListField" -> last.ret = Proxy(d.field, Stored0.r)
              ELSE CASE d.dkind = "none" -> last.ret = None /\ calls = last.c0
                     [] d.dkind = "value" -> last.ret = d.dval /\ calls = last.c0
                     [] d.dkind = "callable" ->
                          /\ calls = [last.c0 EXCEPT ![last.f] = @ + 1]
                          /\ IF d.dval.k \in {"dict", "list"}
                             THEN /\ last.ret.k = d.dval.k
                                  /\ last.ret.r > Len(last.h0)
                                  /\ Tree(heap, last.ret) = Tree(last.h0, d.dval)
                             ELSE last.ret = d.dval
  /\ (last.op = "setattr" /\ last.inp = 1) =>
       /\ ~last.raised
       /\ BoundName(last.f) \in DOMAIN heap[Store(last.rec)].d
       /\ heap[Store(last.rec)].d[BoundName(last.f)] = None

\* the field holds an explicit null and its read calls the producer
TypedReadWitness ==
  /\ last.op = "getattr" /\ last.f = "Person.added"
  /\ "added" \in DOMAIN last.h0[Store(last.rec)].d
  /\ Stored0 = None
  /\ last.ret = Now

\* the descriptors of the composite fields
Composite == {f \in DOMAIN FieldDecl : FieldDecl[f].fcls \in {"DictField", "ListField"}}

\* C9: changing in place, at any depth, the value a typed read of a
\* composite field of one record returned changes neither the store of another
\* record nor the default a record constructed later receives.
DefaultIsolation ==
  (last.op = "mutate" /\ ~last.raised) =>
     /\ \A f \in Composite : Tree(heap, FieldDecl[f].dval) = Tree(ClassHeap, FieldDecl[f].dval)
     /\ \A j \in DOMAIN recs \ {last.rec} : StoreTree(heap, j) = StoreTree(last.h0, j)

\* the addresses the store of recs[i] holds, one and two levels down, in h
Parts(h, i) ==
  LET top == {h[Store(i)].d[x] : x \in DOMAIN h[Store(i)].d}
  IN  {v.r : v \in top}
        \cup UNION {{h[v.r].l[n].r : n \in DOMAIN h[v.r].l} : v \in {w \in top : w.k = "list"}}

\* C10: a typed read of a nested-record field returns a Record over a store
\* of its own that unwraps to the stored nested raw mapping; writing to that
\* Record leaves the parent's store as it was, until the Record is written
\* back through the parent.
NestedDetached ==
  /\ (last.op = "getattr" /\ ~last.raised /\ last.ret.k = "Record") =>
       /\ last.ret.r > Len(last.h0)
       /\ Tree(heap, DictRef(last.ret.r)) = Tree(last.h0, Stored0)
  /\ (last.op = "getitem" /\ ~last.raised /\ last.ret.k = "Record") =>
       /\ last.ret.r > Len(last.h0)
       /\ Tree(heap, DictRef(last.ret.r))
            = Tree(last.h0, last.h0[objs[last.obj].v.r].l[last.idx + 1])
  /\ (/\ last.op = "setattr" /\ ~last.raised
      /\ recs[last.rec].how \in {"read", "item"}
      /\ Store(last.rec) \notin Parts(last.h0, recs[last.rec].rec)) =>
       StoreTree(heap, recs[last.rec].rec) = StoreTree(last.h0, recs[last.rec].rec)

(***************************************************************************)
(* Properties of the Proxies.  The last call was made through objs[last.obj],*)
(* read from field last.attr of recs[last.rec].                            *)
(***************************************************************************)
\* what the store of the record has for the field the view was read from
ViewField(h, o) ==
  h[Store(objs[o].rec)].d[BoundName(Descriptor(recs[objs[o].rec].v.v, objs[o].attr))]

OldItems == Tree(last.h0, ViewField(last.h0, last.obj)).z
NewItems == Tree(heap, ViewField(heap, last.obj)).z

\* the raw mapping of an Author given by attribute: z maps attributes to trees
AuthorImage(z) ==
  DictTree([x \in {"name", "email"} |->
             LET a == IF x = "email" THEN "mail" ELSE x
             IN  IF a \in DOMAIN z THEN z[a] ELSE LeafTree(None)])

\* the raw image of an element handed to a view
ElementImage(lit) ==
  CASE lit.k = "datetime" -> LeafTree(Text(IsoFormat(lit.v) \o "Z"))
    [] lit.k = "D" -> AuthorImage(LitTree(lit).z)
    [] lit.k = "H" -> StoreTree(last.h0, lit.i)

\* the raw image of the element the view was last called with: of the
\* keyword arguments when append or insert had nothing else
ArgImage ==
  IF last.op \in {"append", "insert"} /\ last.nargs = 0
  THEN AuthorImage([x \in DOMAIN SomeKwargs |-> LeafTree(SomeKwargs[x])])
  ELSE ElementImage(TypedInputs(last.f)[last.inp])

ListImage == [n \in DOMAIN ListInputs(last.f)[last.inp] |->
               ElementImage(ListInputs(last.f)[last.inp][n])]

\* the calls whose arguments append and insert are to accept
Accepted ==
  \/ last.nargs = 1 /\ last.nkw = 0
  \/ last.nargs = 0 /\ last.nkw = 1 /\ FieldDecl[last.f].fcls = "DictField"

Mutations ==
  {"append", "insert", "extend", "setitem_", "setslice", "delitem_", "remove", "pop"}

\* the items the sequence is to have after the last mutation
Expected ==
  CASE last.op = "append" -> Append(OldItems, ArgImage)
    [] last.op = "insert" -> ListInsert(OldItems, last.idx, ArgImage)
    [] last.op = "extend" -> OldItems \o ListImage
    [] last.op = "setitem_" -> [OldItems EXCEPT ![last.idx + 1] = ArgImage]
    [] last.op = "setslice" -> ListImage \o SubSeq(OldItems, 2, Len(OldItems))
    [] last.op = "delitem_" -> ListDelete(OldItems, last.idx)
    [] last.op = "pop" ->
         ListDelete(OldItems, IF last.nargs = 0 THEN Len(OldItems) - 1 ELSE 0)
    [] last.op = "remove" ->
         ListDelete(OldItems,
                    (CHOOSE n \in DOMAIN OldItems :
                       /\ OldItems[n] = ElementImage(TypedInputs(last.f)[last.inp])
                       /\ \A m \in 1..(n - 1) :
                            OldItems[m] # ElementImage(TypedInputs(last.f)[last.inp])) - 1)

\* C3: a view read from a sequence field of a record is over the very
\* sequence the record's store holds for the field, so every view of the
\* field, older or newer, has the contents unwrap() has; after a mutation
\* through a view unwrap() has the raw image of the resulting sequence
\* (appending datetime(2007,4,1,15,30,0) to an empty one gives
\* ["2007-04-01T15:30:00Z"]).
WriteThrough ==
  /\ \A o \in Proxies :
       ~objs[o].stale =>
         /\ ViewField(heap, o).k = "list"
         /\ ViewField(heap, o).r = objs[o].v.r
         /\ Tree(heap, objs[o].v).z = Tree(heap, ViewField(heap, o)).z
  /\ (/\ last.op \in Mutations /\ ~last.raised
      /\ last.op \in {"append", "insert"} => Accepted
      /\ ~objs[last.obj].stale) =>
       NewItems = Expected

\* two views of an empty date-time field; datetime(2007,4,1,15,30,0) is
\* appended through the older one and the newer one has it
WriteThroughWitness ==
  /\ last.op = "append" /\ ~last.raised /\ last.obj = 1
  /\ last.nargs = 1 /\ last.nkw = 0 /\ last.inp = 2 /\ last.f = "elt.dt"
  /\ Len(objs) = 2 /\ IsProxy(2)
  /\ objs[2].rec = objs[1].rec /\ objs[2].attr = objs[1].attr
  /\ OldItems = <<>>
  /\ Tree(heap, objs[2].v).z = <<LeafTree(DtText)>>
  /\ NewItems = <<LeafTree(DtText)>>

\* C4: append and insert accept exactly one positional value and no keyword
\* values, or, for a nested-record element field only, no positional value
\* and keyword values; every other call raises the arity error (a TypeError)
\* and leaves the sequence as it was.
ArityChecked ==
  (last.op \in {"append", "insert"} /\ ~Accepted) =>
     /\ last.raised
     /\ last.ret = Raise("TypeError")
     /\ NewItems = OldItems

\* C5: a call on a Record or on a view that raises leaves the store of
\* every record, the sequences the views are over included, as it was before
\* the call; extend appends none of the elements before the one that fails.
Atomic ==
  last.raised => \A i \in DOMAIN recs : StoreTree(heap, i) = StoreTree(last.h0, i)

====
